---- MODULE Spec2Model ----
(***************************************************************************)
(* Session orchestration core of the ClaudeBench sidecar: the session      *)
(* registry, the query orchestrator (runQuery), the permission arbiter     *)
(* (canUseTool) and the sql.js backed SessionStore.                        *)
(*                                                                         *)
(* One step of the model is one turn of the Node event loop: a client      *)
(* event handled up to its first suspension, one iteration of the          *)
(* `for await` loop of runQuery, one canUseTool call, a timer or a         *)
(* promise callback.  `out` holds what that step wrote with send(), plus   *)
(* the value canUseTool handed back to the agent.                          *)
(*                                                                         *)
(* Not modelled (no claim reads them): cwd, last_prompt, claude_session_id,*)
(* updated_at, attachments, the skills handlers.                           *)
(***************************************************************************)
EXTENDS Integers, Sequences, FiniteSets, TLC

\* ---------------------------------------------------------------- bounds
MaxSessions == 2
MaxCtrl == 2
MaxMsgs == 3
MaxClock == 2
MaxLate == 1
MaxBoots == 1
MaxTools == 4
MaxLifeSessions == 1
MaxPolicies == 1
MaxTurns == 5

SessionIds == 1..MaxSessions
CtrlIds == SessionIds \X (1..(MaxCtrl + 1))

Titles == {"t"}
GeneratedTitle == "g"

VARIABLES
  sessions,       \* keys of the in-memory Map `sessions`
  data,           \* the SessionData objects, by session id (an object outlives its Map entry)
  aborted,        \* AbortControllers whose abort() has been called
  ctrls,          \* number of AbortControllers constructed so far, per session
  runs,           \* runQuery invocations suspended in `for await`, by their AbortController
  titleJobs,      \* pending generateSessionTitle promises
  nextId,         \* next id handed out by generateId
  seq,            \* number of messages emitted so far, per session (identifies a message)
  now,            \* Date.now()
  db,             \* the in-memory sql.js database
  file,           \* the database file on disk
  saveTimer,      \* SessionStore.saveTimer is armed
  requests,       \* permission requests shown by the client and not yet answered
  clientHistory,  \* last session.history payload received by the client, per session
  nextTool,       \* next tool-use id
  boots,          \* number of process restarts
  claudeCodePath, \* whether findClaudeCodePath found the executable
  tieBreak,       \* order the SQL engine gives to rows with equal ORDER BY keys
  event,          \* the client event handled by the current step (handleMessage)
  turns,          \* the conversation turns handed to the token-limiting loop
  context,        \* recentTurns, once buildConversationContext has run
  out             \* events sent in the current step

vars == <<sessions, data, aborted, ctrls, runs, titleJobs, nextId, seq, now, db,
          file, saveTimer, requests, clientHistory, nextTool, boots, claudeCodePath,
          tieBreak, event, turns, context, out>>

\* ------------------------------------------------------------ small helpers
Remove(f, k) == [x \in DOMAIN f \ {k} |-> f[x]]

Put(f, k, v) == [x \in DOMAIN f \cup {k} |-> IF x = k THEN v ELSE f[x]]

IsPrefix(s, t) == Len(s) <= Len(t) /\ \A i \in 1..Len(s) : s[i] = t[i]

\* The event parsed from a line of stdin; NoEvent in a step that no client
\* event starts (a stream iteration, a callback, a timer).
ClientEvent(type, sessionId) == [type |-> type, sessionId |-> sessionId]

NoEvent == [type |-> "none"]

\* ------------------------------------------------------------ SessionStore
EmptyDb ==
  [sessions |-> << >>, messages |-> << >>, policies |-> << >>, settings |-> << >>]

getSetting(d, key) == IF key \in DOMAIN d.settings THEN d.settings[key] ELSE "null"

setSetting(d, key, value) == [d EXCEPT !.settings = Put(d.settings, key, value)]

initSchema(d) ==
  IF getSetting(d, "permission_mode") = "null"
    THEN setSetting(d, "permission_mode", "interactive")
    ELSE d

createSession(d, id, title, status) ==
  [d EXCEPT !.sessions = Put(d.sessions, id, [id |-> id, title |-> title, status |-> status])]

hasSession(d, id) == id \in DOMAIN d.sessions

listSessions(d) == {d.sessions[id] : id \in DOMAIN d.sessions}

\* updates is a function from a subset of {"title", "status"} to the new values
updateSession(d, id, updates) ==
  IF ~hasSession(d, id) THEN d
  ELSE [d EXCEPT !.sessions[id] =
          [f \in DOMAIN d.sessions[id] |->
             IF f \in DOMAIN updates THEN updates[f] ELSE d.sessions[id][f]]]

\* The messages table is kept as one sequence of rows per session_id, in
\* insertion (rowid) order: every statement on it selects by session_id.
MessageRows(d, sessionId) ==
  IF sessionId \in DOMAIN d.messages THEN d.messages[sessionId] ELSE << >>

deleteSession(d, id) ==
  [d EXCEPT !.messages = Remove(d.messages, id),
            !.sessions = Remove(d.sessions, id)]

recordMessage(d, sessionId, message) ==
  [d EXCEPT !.messages =
     Put(d.messages, sessionId,
         Append(MessageRows(d, sessionId), [data |-> message, created_at |-> now]))]

\* SELECT data FROM messages WHERE session_id = ? ORDER BY created_at ASC.
\* Rows with equal created_at come in the order the engine happens to produce.
RowBefore(rows, i, j) ==
  \/ rows[i].created_at < rows[j].created_at
  \/ /\ rows[i].created_at = rows[j].created_at
     /\ IF tieBreak = "insertion" THEN i < j ELSE i > j

getSessionMessages(d, sessionId) ==
  LET rows == MessageRows(d, sessionId)
      rank(i) == Cardinality({j \in 1..Len(rows) : RowBefore(rows, j, i)}) + 1
  IN [k \in 1..Len(rows) |-> rows[CHOOSE i \in 1..Len(rows) : rank(i) = k].data]

getPermissionMode(d) ==
  LET mode == getSetting(d, "permission_mode")
  IN IF mode \in {"bypass", "auto-safe", "interactive"} THEN mode ELSE "interactive"

setPermissionMode(d, mode) == setSetting(d, "permission_mode", mode)

\* Strings that the code takes apart (paths, commands) are sequences of
\* characters; the empty string, undefined and SQL NULL are all << >>
\* (the code tests them with `||` and `if (x)` only).
NULL == << >>

Home == <<"/", "h">>

getDefaultProtectedPaths == << <<"~", "/", "s">>, <<"/", "e">> >>

getProtectedPaths(d) ==
  IF "protected_paths" \in DOMAIN d.settings
    THEN d.settings["protected_paths"]
    ELSE getDefaultProtectedPaths

setProtectedPaths(d, paths) == setSetting(d, "protected_paths", paths)

\* protectedPath.replace(/^~/, home)
ExpandHome(protectedPath) ==
  IF Len(protectedPath) > 0 /\ Head(protectedPath) = "~"
    THEN Home \o Tail(protectedPath)
    ELSE protectedPath

\* A protected-path test that matches a configured path only when the
\* request names exactly that path.
isProtectedPathExact(d, filePath) ==
  \E i \in 1..Len(getProtectedPaths(d)) :
     ExpandHome(getProtectedPaths(d)[i]) = filePath

isProtectedPath(d, filePath) ==
  \E i \in 1..Len(getProtectedPaths(d)) :
     IsPrefix(ExpandHome(getProtectedPaths(d)[i]), filePath)

\* queryOne: the first row of the result, null (0 here) when there is none.
\* The two SELECTs of getPermissionPolicy have no ORDER BY.
FirstRow(idx) ==
  IF idx = {} THEN 0
  ELSE IF tieBreak = "insertion"
         THEN CHOOSE i \in idx : \A j \in idx : i <= j
         ELSE CHOOSE i \in idx : \A j \in idx : i >= j

PolicyRows(d, toolName, pathPattern) ==
  {i \in 1..Len(d.policies) :
     d.policies[i].tool_name = toolName /\ d.policies[i].path_pattern = pathPattern}

\* The behavior of the policy found, "none" when getPermissionPolicy returns null
getPermissionPolicy(d, toolName, pathPattern) ==
  LET scoped == IF pathPattern # NULL THEN FirstRow(PolicyRows(d, toolName, pathPattern)) ELSE 0
      toolOnly == FirstRow(PolicyRows(d, toolName, NULL))
  IN IF scoped # 0 THEN d.policies[scoped].behavior
     ELSE IF toolOnly # 0 THEN d.policies[toolOnly].behavior
     ELSE "none"

addPermissionPolicy(d, toolName, behavior, pathPattern) ==
  [d EXCEPT !.policies =
     Append(d.policies,
            [tool_name |-> toolName, path_pattern |-> pathPattern, behavior |-> behavior])]

clearAllPermissionPolicies(d) == [d EXCEPT !.policies = << >>]

\* ------------------------------------------------------------------ events
StatusEvent(sessionId, status) ==
  [type |-> "session.status", sessionId |-> sessionId, status |-> status]

UserPromptEvent(sessionId, m) ==
  [type |-> "stream.user_prompt", sessionId |-> sessionId, message |-> m]

StreamEvent(sessionId, m) ==
  [type |-> "stream.message", sessionId |-> sessionId, message |-> m]

RunnerError(text) == [type |-> "runner.error", message |-> text]

Emitted(sessionId) == IF sessionId \in DOMAIN seq THEN seq[sessionId] ELSE 0

Msg(sessionId, type, subtype) ==
  [type |-> type, subtype |-> subtype, seq |-> Emitted(sessionId) + 1]

\* ---------------------------------------------------------------- handlers
\* new SessionData for a row of the store (handleSessionList, handleSessionContinue)
Admit(row, messages, ctrl) ==
  [status |-> row.status, title |-> row.title, messages |-> messages,
   abortController |-> ctrl, pendingPermissions |-> {},
   isFirstQuery |-> FALSE, firstPrompt |-> FALSE]

\* The k-th AbortController constructed for a session is <<sessionId, k>>
Constructed(sessionId) == IF sessionId \in DOMAIN ctrls THEN ctrls[sessionId] ELSE 0

NewController(sessionId) == <<sessionId, Constructed(sessionId) + 1>>

\* The registry after handleSessionList: stored sessions absent from the Map
\* are admitted with an empty message cache and a fresh AbortController.
ListAdmitted(d, keys) == {id \in DOMAIN d.sessions : id \notin keys}

ListData(d, keys, objs, made) ==
  [id \in DOMAIN objs \cup ListAdmitted(d, keys) |->
     IF id \in ListAdmitted(d, keys)
       THEN Admit(d.sessions[id], << >>,
                  <<id, (IF id \in DOMAIN made THEN made[id] ELSE 0) + 1>>)
       ELSE objs[id]]

ListControllers(d, keys, made) ==
  [id \in DOMAIN made \cup ListAdmitted(d, keys) |->
     IF id \in ListAdmitted(d, keys)
       THEN (IF id \in DOMAIN made THEN made[id] ELSE 0) + 1
       ELSE made[id]]

ListEvent(d) == [type |-> "session.list", sessions |-> listSessions(d)]

handleSessionList ==
  /\ event' = [type |-> "session.list"]
  /\ UNCHANGED <<turns, context>>
  /\ data' = ListData(db, sessions, data, ctrls)
  /\ sessions' = sessions \cup ListAdmitted(db, sessions)
  /\ ctrls' = ListControllers(db, sessions, ctrls)
  /\ out' = << ListEvent(db) >>
  /\ UNCHANGED <<aborted, runs, titleJobs, nextId, seq, now, db, file, saveTimer,
                 requests, clientHistory, nextTool, boots, claudeCodePath, tieBreak>>

handleSessionHistory(sessionId) ==
  /\ event' = ClientEvent("session.history", sessionId)
  /\ UNCHANGED <<turns, context>>
  /\ IF ~hasSession(db, sessionId)
       THEN /\ out' = << RunnerError("Session not found") >>
            /\ UNCHANGED <<data, clientHistory>>
       ELSE /\ data' = IF sessionId \in sessions
                         THEN [data EXCEPT ![sessionId].messages =
                                 getSessionMessages(db, sessionId)]
                         ELSE data
            /\ out' = << [type |-> "session.history", sessionId |-> sessionId,
                          messages |-> getSessionMessages(db, sessionId),
                          status |-> db.sessions[sessionId].status] >>
            /\ clientHistory' = Put(clientHistory, sessionId,
                                    getSessionMessages(db, sessionId))
  /\ UNCHANGED <<sessions, aborted, ctrls, runs, titleJobs, nextId, seq, now, db,
                 file, saveTimer, requests, nextTool, boots, claudeCodePath, tieBreak>>

\* runQuery up to its first suspension.  obj is the SessionData as the caller
\* left it, d the database, evs the events already sent by the caller,
\* history the messages the prompt was built from.
NewRun(sessionId, d, history) ==
  [sessionId |-> sessionId, permissionMode |-> getPermissionMode(d),
   waiting |-> 0, late |-> 0, history |-> history]

runQuery(sessionId, obj, d, evs, history) ==
  IF ~claudeCodePath
    THEN /\ data' = Put(data, sessionId, [obj EXCEPT !.status = "error"])
         /\ db' = updateSession(d, sessionId, "status" :> "error")
         /\ out' = evs \o << StatusEvent(sessionId, "error"),
                              RunnerError("Claude Code CLI not found") >>
         /\ runs' = runs
    ELSE /\ data' = Put(data, sessionId, obj)
         /\ db' = d
         /\ out' = evs
         /\ runs' = Put(runs, obj.abortController, NewRun(sessionId, d, history))

handleSessionStart(title) ==
  /\ event' = ClientEvent("session.start", nextId)
  /\ UNCHANGED <<turns, context>>
  /\ nextId <= MaxSessions
  /\ LET sessionId == nextId
           m == Msg(sessionId, "user_prompt", "")
           obj == [status |-> "running", title |-> title, messages |-> << m >>,
                   abortController |-> NewController(sessionId),
                   pendingPermissions |-> {},
                   isFirstQuery |-> TRUE, firstPrompt |-> TRUE]
           d == recordMessage(createSession(db, sessionId, title, "running"),
                              sessionId, m)
       IN /\ sessions' = sessions \cup {sessionId}
          /\ nextId' = nextId + 1
          /\ ctrls' = Put(ctrls, sessionId, Constructed(sessionId) + 1)
          /\ seq' = Put(seq, sessionId, 1)
          /\ saveTimer' = TRUE
          /\ runQuery(sessionId, obj, d,
                      << StatusEvent(sessionId, "running"), UserPromptEvent(sessionId, m) >>,
                      << >>)
  /\ UNCHANGED <<aborted, titleJobs, now, file, requests, clientHistory, nextTool, boots,
                 claudeCodePath, tieBreak>>

\* A session.continue that drops the event when the session is unknown,
\* without telling the client.
handleSessionContinueSilent(sessionId) ==
  /\ event' = ClientEvent("session.continue", sessionId)
  /\ UNCHANGED <<turns, context>>
  /\ sessionId \notin sessions /\ ~hasSession(db, sessionId)
  /\ out' = << >>
  /\ UNCHANGED <<sessions, data, aborted, ctrls, runs, titleJobs, nextId, seq,
                 now, db, file, saveTimer, requests, clientHistory, nextTool,
                 boots, claudeCodePath, tieBreak>>

handleSessionContinue(sessionId) ==
  /\ event' = ClientEvent("session.continue", sessionId)
  /\ UNCHANGED <<turns, context>>
  /\ IF sessionId \notin sessions /\ ~hasSession(db, sessionId)
    THEN /\ out' = << RunnerError("Session not found") >>
         /\ UNCHANGED <<sessions, data, aborted, ctrls, runs, titleJobs, nextId, seq,
                        now, db, file, saveTimer, requests, clientHistory, nextTool,
                        boots, claudeCodePath, tieBreak>>
    ELSE
      /\ Constructed(sessionId) < MaxCtrl
      /\ Emitted(sessionId) < MaxMsgs
      /\   LET session == IF sessionId \in sessions
                            THEN data[sessionId]
                            ELSE Admit(db.sessions[sessionId],
                                       getSessionMessages(db, sessionId),
                                       NewController(sessionId))
               m == Msg(sessionId, "user_prompt", "")
               obj == [session EXCEPT !.status = "running",
                                      !.abortController = NewController(sessionId),
                                      !.messages = Append(session.messages, m)]
               d == recordMessage(updateSession(db, sessionId, "status" :> "running"),
                                  sessionId, m)
               historyMessages == SubSeq(obj.messages, 1, Len(obj.messages) - 1)
           IN /\ sessions' = sessions \cup {sessionId}
              /\ ctrls' = Put(ctrls, sessionId, Constructed(sessionId) + 1)
              /\ seq' = Put(seq, sessionId, Emitted(sessionId) + 1)
              /\ saveTimer' = TRUE
              /\ runQuery(sessionId, obj, d,
                          << StatusEvent(sessionId, "running"),
                             UserPromptEvent(sessionId, m) >>,
                          historyMessages)
      /\ UNCHANGED <<aborted, titleJobs, nextId, now, file, requests, clientHistory,
                     nextTool, boots, claudeCodePath, tieBreak>>

\* ------------------------------------------------------- permission arbiter
\* A list of dangerous tools that leaves the network fetch out.
dangerousToolsLocal == {"Bash", "Edit", "Write", "NotebookEdit"}

dangerousTools == {"Bash", "Edit", "Write", "WebFetch", "NotebookEdit"}

safeTools == {"Read", "Grep", "Glob", "Ls", "Tree"}

Input(file_path, path, command) ==
  [file_path |-> file_path, path |-> path, command |-> command]

\* inputObj.file_path || inputObj.path || inputObj.command
ResolvedPath(input) ==
  IF input.file_path # NULL THEN input.file_path
  ELSE IF input.path # NULL THEN input.path
  ELSE input.command

\* What canUseTool does with a request: "allow", "deny", "ask" (defer to the
\* human) or "ask-protected" (defer, flagged isProtectedPath).
\* A decision procedure that lets the permission mode settle the request
\* before the protected paths are looked at.
DecideModeFirst(d, permissionMode, toolName, input) ==
  LET filePath == ResolvedPath(input)
      policy == getPermissionPolicy(d, toolName, filePath)
  IN IF toolName = "AskUserQuestion" THEN "ask"
     ELSE IF permissionMode = "bypass" THEN "allow"
     ELSE IF policy = "always_allow" THEN "allow"
     ELSE IF policy = "always_deny" THEN "deny"
     ELSE IF permissionMode = "auto-safe" /\ toolName \notin dangerousTools THEN "allow"
     ELSE IF filePath # NULL /\ isProtectedPath(d, filePath) THEN "ask-protected"
     ELSE IF permissionMode = "interactive" /\ toolName \in safeTools THEN "allow"
     ELSE "ask"

\* A decision procedure in which a stored policy settles the request before
\* the agent's question tool is recognised.
DecidePolicyFirst(d, permissionMode, toolName, input) ==
  LET filePath == ResolvedPath(input)
      policy == getPermissionPolicy(d, toolName, filePath)
  IN IF policy = "always_allow" THEN "allow"
     ELSE IF policy = "always_deny" THEN "deny"
     ELSE IF toolName = "AskUserQuestion" THEN "ask"
     ELSE IF permissionMode = "bypass" THEN "allow"
     ELSE IF filePath # NULL /\ isProtectedPath(d, filePath) THEN "ask-protected"
     ELSE IF permissionMode = "auto-safe"
       THEN (IF toolName \in safeTools THEN "allow"
             ELSE IF toolName \in dangerousTools THEN "ask"
             ELSE "allow")
     ELSE IF permissionMode = "interactive"
       THEN (IF toolName \in safeTools THEN "allow" ELSE "ask")
     ELSE "ask"

Decide(d, permissionMode, toolName, input) ==
  LET filePath == ResolvedPath(input)
      policy == getPermissionPolicy(d, toolName, filePath)
  IN IF toolName = "AskUserQuestion" THEN "ask"
     ELSE IF permissionMode = "bypass" THEN "allow"
     ELSE IF policy = "always_allow" THEN "allow"
     ELSE IF policy = "always_deny" THEN "deny"
     ELSE IF filePath # NULL /\ isProtectedPath(d, filePath) THEN "ask-protected"
     ELSE IF permissionMode = "auto-safe"
       THEN (IF toolName \in safeTools THEN "allow"
             ELSE IF toolName \in dangerousTools THEN "ask"
             ELSE "allow")
     ELSE IF permissionMode = "interactive"
       THEN (IF toolName \in safeTools THEN "allow" ELSE "ask")
     ELSE "ask"

Returned(sessionId, toolUseId, toolName, input, behavior) ==
  [type |-> "canUseTool.return", sessionId |-> sessionId, toolUseId |-> toolUseId,
   toolName |-> toolName, input |-> input, behavior |-> behavior]

\* The promise of a deferred call is resolved with the human's result
Resolved(sessionId, toolUseId, behavior) ==
  [type |-> "canUseTool.resolved", sessionId |-> sessionId, toolUseId |-> toolUseId,
   behavior |-> behavior]

PermissionRequest(sessionId, toolUseId, toolName, input, protected) ==
  [type |-> "permission.request", sessionId |-> sessionId, toolUseId |-> toolUseId,
   toolName |-> toolName, input |-> input, isProtectedPath |-> protected]

\* The agent of run c asks for a tool: the canUseTool callback.
canUseTool(c, toolName, input) ==
  /\ event' = NoEvent
  /\ UNCHANGED <<turns, context>>
  /\ c \in DOMAIN runs
  /\ c \notin aborted
  /\ runs[c].waiting = 0
  /\ nextTool <= MaxTools
  /\ nextTool' = nextTool + 1
  /\ LET sessionId == runs[c].sessionId
         toolUseId == nextTool
         decision == Decide(db, runs[c].permissionMode, toolName, input)
         request == PermissionRequest(sessionId, toolUseId, toolName, input,
                                      decision = "ask-protected")
     IN IF decision \in {"ask", "ask-protected"}
          THEN /\ data' = [data EXCEPT ![sessionId].pendingPermissions = @ \cup {toolUseId}]
               /\ runs' = [runs EXCEPT ![c].waiting = toolUseId]
               /\ requests' = requests \cup {request}
               /\ out' = << request >>
          ELSE /\ out' = << Returned(sessionId, toolUseId, toolName, input, decision) >>
               /\ UNCHANGED <<data, runs, requests>>
  /\ UNCHANGED <<sessions, aborted, ctrls, titleJobs, nextId, seq, now, db, file, saveTimer,
                 clientHistory, boots, claudeCodePath, tieBreak>>

\* A response handler that resumes every waiting call of the session named
\* by the response, whatever tool-use id the response carries.
handlePermissionResponseAny(request, behavior, remember) ==
  /\ event' = [type |-> "permission.response", sessionId |-> request.sessionId,
               toolUseId |-> request.toolUseId, remember |-> remember,
               behavior |-> behavior]
  /\ UNCHANGED <<turns, context>>
  /\ requests' = requests \ {request}
  /\ LET sessionId == request.sessionId
         toolUseId == request.toolUseId
         rememberBehavior == IF behavior = "allow" THEN "always_allow" ELSE "always_deny"
         filePath == IF request.input.file_path # NULL
                       THEN request.input.file_path
                       ELSE request.input.path
         waiter == {c \in DOMAIN runs : runs[c].sessionId = sessionId /\ runs[c].waiting # 0}
     IN IF sessionId \notin sessions
          THEN /\ out' = << >>
               /\ UNCHANGED <<data, runs, db, saveTimer>>
          ELSE /\ db' = IF remember
                          THEN addPermissionPolicy(db, request.toolName, rememberBehavior,
                                                   filePath)
                          ELSE db
               /\ saveTimer' = (saveTimer \/ remember)
               /\ IF data[sessionId].pendingPermissions # {}
                    THEN /\ data' = [data EXCEPT ![sessionId].pendingPermissions = {}]
                         /\ runs' = [c \in DOMAIN runs |->
                                       IF c \in waiter THEN [runs[c] EXCEPT !.waiting = 0]
                                       ELSE runs[c]]
                         /\ out' = IF waiter = {} THEN << >>
                                   ELSE << Resolved(sessionId, toolUseId, behavior) >>
                    ELSE /\ out' = << >>
                         /\ UNCHANGED <<data, runs>>
  /\ UNCHANGED <<sessions, aborted, ctrls, titleJobs, nextId, seq, now, file,
                 clientHistory, nextTool, boots, claudeCodePath, tieBreak>>

\* A permission.response whose payload echoes `request` (App.tsx
\* handlePermissionResponse echoes the toolName and input of the request it
\* answers; rememberBehavior follows the result).  The client drops the
\* request it answered.
handlePermissionResponse(request, behavior, remember) ==
  /\ event' = [type |-> "permission.response", sessionId |-> request.sessionId,
               toolUseId |-> request.toolUseId, remember |-> remember,
               behavior |-> behavior]
  /\ UNCHANGED <<turns, context>>
  /\ requests' = requests \ {request}
  /\ LET sessionId == request.sessionId
         toolUseId == request.toolUseId
         rememberBehavior == IF behavior = "allow" THEN "always_allow" ELSE "always_deny"
         filePath == IF request.input.file_path # NULL
                       THEN request.input.file_path
                       ELSE request.input.path
         waiter == {c \in DOMAIN runs : runs[c].waiting = toolUseId}
     IN IF sessionId \notin sessions
          THEN /\ out' = << >>
               /\ UNCHANGED <<data, runs, db, saveTimer>>
          ELSE /\ db' = IF remember
                          THEN addPermissionPolicy(db, request.toolName, rememberBehavior,
                                                   filePath)
                          ELSE db
               /\ saveTimer' = (saveTimer \/ remember)
               /\ IF toolUseId \in data[sessionId].pendingPermissions
                    THEN /\ data' = [data EXCEPT ![sessionId].pendingPermissions =
                                                   @ \ {toolUseId}]
                         /\ runs' = [c \in DOMAIN runs |->
                                       IF c \in waiter THEN [runs[c] EXCEPT !.waiting = 0]
                                       ELSE runs[c]]
                         /\ out' = IF waiter = {} THEN << >>
                                   ELSE << Resolved(sessionId, toolUseId, behavior) >>
                    ELSE /\ out' = << >>
                         /\ UNCHANGED <<data, runs>>
  /\ UNCHANGED <<sessions, aborted, ctrls, titleJobs, nextId, seq, now, file,
                 clientHistory, nextTool, boots, claudeCodePath, tieBreak>>

SettingsEvent(d) ==
  [type |-> "settings.permission", permissionMode |-> getPermissionMode(d),
   protectedPaths |-> getProtectedPaths(d), policies |-> d.policies]

handleSettingsGet ==
  /\ event' = [type |-> "settings.get"]
  /\ UNCHANGED <<turns, context>>
  /\ out' = << SettingsEvent(db) >>
  /\ UNCHANGED <<sessions, data, aborted, ctrls, runs, titleJobs, nextId, seq, now, db,
                 file, saveTimer, requests, clientHistory, nextTool, boots,
                 claudeCodePath, tieBreak>>

\* payload is a function from a subset of {"permissionMode", "protectedPaths"}
handleSettingsUpdate(payload) ==
  /\ event' = [type |-> "settings.update"]
  /\ UNCHANGED <<turns, context>>
  /\ LET d1 == IF "permissionMode" \in DOMAIN payload
                 THEN setPermissionMode(db, payload["permissionMode"])
                 ELSE db
         d2 == IF "protectedPaths" \in DOMAIN payload
                 THEN setProtectedPaths(d1, payload["protectedPaths"])
                 ELSE d1
     IN /\ db' = d2
        /\ out' = << SettingsEvent(d2) >>
  /\ saveTimer' = (saveTimer \/ DOMAIN payload # {})
  /\ UNCHANGED <<sessions, data, aborted, ctrls, runs, titleJobs, nextId, seq, now, file,
                 requests, clientHistory, nextTool, boots, claudeCodePath, tieBreak>>

handlePermissionPolicyClear ==
  /\ event' = [type |-> "settings.permission.clear"]
  /\ UNCHANGED <<turns, context>>
  /\ db' = clearAllPermissionPolicies(db)
  /\ saveTimer' = TRUE
  /\ out' = << SettingsEvent(clearAllPermissionPolicies(db)) >>
  /\ UNCHANGED <<sessions, data, aborted, ctrls, runs, titleJobs, nextId, seq, now, file,
                 requests, clientHistory, nextTool, boots, claudeCodePath, tieBreak>>

\* --------------------------------------------------------- query orchestrator
\* One iteration of `for await (const message of q)`.  The body has no test
\* of abortController.signal: a message the iterator had queued when abort()
\* was called (at most MaxLate of them) is handled like any other.  The agent
\* ends its stream after the result message.
StreamMessage(c, type, subtype) ==
  /\ event' = NoEvent
  /\ UNCHANGED <<turns, context>>
  /\ c \in DOMAIN runs
  /\ runs[c].waiting = 0
  /\ Emitted(runs[c].sessionId) < MaxMsgs
  /\ c \in aborted => runs[c].late < MaxLate
  /\ LET sessionId == runs[c].sessionId
           session == data[sessionId]
           m == Msg(sessionId, type, subtype)
           d == recordMessage(db, sessionId, m)
           status == IF subtype = "success" THEN "completed" ELSE "error"
           title == /\ session.isFirstQuery /\ status = "completed"
                    /\ session.firstPrompt /\ claudeCodePath
       IN /\ seq' = Put(seq, sessionId, Emitted(sessionId) + 1)
          /\ saveTimer' = TRUE
          /\ IF type = "result"
               THEN /\ data' = [data EXCEPT ![sessionId].messages = Append(@, m),
                                            ![sessionId].status = status,
                                            ![sessionId].isFirstQuery = (@ /\ ~title)]
                    /\ db' = updateSession(d, sessionId, "status" :> status)
                    /\ out' = << StreamEvent(sessionId, m), StatusEvent(sessionId, status) >>
                    /\ titleJobs' = IF title THEN titleJobs \cup {sessionId} ELSE titleJobs
                    /\ runs' = Remove(runs, c)
               ELSE /\ data' = [data EXCEPT ![sessionId].messages = Append(@, m)]
                    /\ db' = d
                    /\ out' = << StreamEvent(sessionId, m) >>
                    /\ titleJobs' = titleJobs
                    /\ runs' = IF c \in aborted
                                 THEN [runs EXCEPT ![c].late = @ + 1]
                                 ELSE runs
  /\ UNCHANGED <<sessions, aborted, ctrls, nextId, now, file, requests, clientHistory,
                 nextTool, boots, claudeCodePath, tieBreak>>

\* The iterator is exhausted without a result message: runQuery returns.
StreamEnd(c) ==
  /\ event' = NoEvent
  /\ UNCHANGED <<turns, context>>
  /\ c \in DOMAIN runs
  /\ runs' = Remove(runs, c)
  /\ out' = << >>
  /\ UNCHANGED <<sessions, data, aborted, ctrls, titleJobs, nextId, seq, now, db, file,
                 saveTimer, requests, clientHistory, nextTool, boots, claudeCodePath,
                 tieBreak>>

\* A catch block that reports the error and leaves the stored status alone.
StreamThrowUnsaved(c) ==
  /\ event' = NoEvent
  /\ UNCHANGED <<turns, context>>
  /\ c \in DOMAIN runs
  /\ data' = [data EXCEPT ![runs[c].sessionId].status = "error"]
  /\ out' = << StatusEvent(runs[c].sessionId, "error"), RunnerError("stream error") >>
  /\ runs' = Remove(runs, c)
  /\ UNCHANGED <<sessions, aborted, ctrls, titleJobs, nextId, seq, now, db, file, saveTimer,
                 requests, clientHistory, nextTool, boots, claudeCodePath, tieBreak>>

\* The iterator throws (agent failure, or the abort surfacing as an error):
\* the catch block of runQuery.
StreamThrow(c) ==
  /\ event' = NoEvent
  /\ UNCHANGED <<turns, context>>
  /\ c \in DOMAIN runs
  /\ LET sessionId == runs[c].sessionId
     IN /\ data' = [data EXCEPT ![sessionId].status = "error"]
        /\ db' = updateSession(db, sessionId, "status" :> "error")
        /\ saveTimer' = (saveTimer \/ hasSession(db, sessionId))
        /\ out' = << StatusEvent(sessionId, "error"), RunnerError("stream error") >>
  /\ runs' = Remove(runs, c)
  /\ UNCHANGED <<sessions, aborted, ctrls, titleJobs, nextId, seq, now, file,
                 requests, clientHistory, nextTool, boots, claudeCodePath, tieBreak>>

\* An iteration of the loop in which store.recordMessage throws: the message
\* was sent and pushed to session.messages, then the catch block runs.
RecordThrow(c, type, subtype) ==
  /\ event' = NoEvent
  /\ UNCHANGED <<turns, context>>
  /\ c \in DOMAIN runs
  /\ runs[c].waiting = 0
  /\ Emitted(runs[c].sessionId) < MaxMsgs
  /\ c \in aborted => runs[c].late < MaxLate
  /\ LET sessionId == runs[c].sessionId
         m == Msg(sessionId, type, subtype)
     IN /\ seq' = Put(seq, sessionId, Emitted(sessionId) + 1)
        /\ data' = [data EXCEPT ![sessionId].messages = Append(@, m),
                                ![sessionId].status = "error"]
        /\ db' = updateSession(db, sessionId, "status" :> "error")
        /\ saveTimer' = (saveTimer \/ hasSession(db, sessionId))
        /\ out' = << StreamEvent(sessionId, m), StatusEvent(sessionId, "error"),
                     RunnerError("record error") >>
  /\ runs' = Remove(runs, c)
  /\ UNCHANGED <<sessions, aborted, ctrls, titleJobs, nextId, now, file,
                 requests, clientHistory, nextTool, boots, claudeCodePath, tieBreak>>

\* The promise of generateSessionTitle settles; newTitle is empty on failure.
TitleDone(sessionId, newTitle) ==
  /\ event' = NoEvent
  /\ UNCHANGED <<turns, context>>
  /\ sessionId \in titleJobs
  /\ titleJobs' = titleJobs \ {sessionId}
  /\ IF newTitle
       THEN /\ data' = [data EXCEPT ![sessionId].title = GeneratedTitle]
            /\ db' = updateSession(db, sessionId, "title" :> GeneratedTitle)
            /\ saveTimer' = (saveTimer \/ hasSession(db, sessionId))
            /\ out' = << [type |-> "session.status", sessionId |-> sessionId,
                          status |-> data[sessionId].status, title |-> GeneratedTitle] >>
       ELSE /\ out' = << >>
            /\ UNCHANGED <<data, db, saveTimer>>
  /\ UNCHANGED <<sessions, aborted, ctrls, runs, nextId, seq, now, file, requests,
                 clientHistory, nextTool, boots, claudeCodePath, tieBreak>>

handleSessionStop(sessionId) ==
  /\ event' = ClientEvent("session.stop", sessionId)
  /\ UNCHANGED <<turns, context>>
  /\ IF sessionId \notin sessions
       THEN /\ out' = << RunnerError("Session not found") >>
            /\ UNCHANGED <<data, aborted, db, saveTimer>>
       ELSE /\ aborted' = aborted \cup {data[sessionId].abortController}
            /\ data' = [data EXCEPT ![sessionId].status = "idle"]
            /\ db' = updateSession(db, sessionId, "status" :> "idle")
            /\ saveTimer' = (saveTimer \/ hasSession(db, sessionId))
            /\ out' = << StatusEvent(sessionId, "idle") >>
  /\ UNCHANGED <<sessions, ctrls, runs, titleJobs, nextId, seq, now, file, requests,
                 clientHistory, nextTool, boots, claudeCodePath, tieBreak>>

handleSessionDelete(sessionId) ==
  /\ event' = ClientEvent("session.delete", sessionId)
  /\ UNCHANGED <<turns, context>>
  /\ IF sessionId \in sessions
       THEN /\ aborted' = aborted \cup {data[sessionId].abortController}
            /\ sessions' = sessions \ {sessionId}
       ELSE UNCHANGED <<aborted, sessions>>
  /\ db' = deleteSession(db, sessionId)
  /\ saveTimer' = TRUE
  /\ out' = << [type |-> "session.deleted", sessionId |-> sessionId] >>
  /\ UNCHANGED <<data, ctrls, runs, titleJobs, nextId, seq, now, file, requests,
                 clientHistory, nextTool, boots, claudeCodePath, tieBreak>>

\* A close that leaves the database file as the last timer save wrote it.
closeWithoutSave(d, f) == f

\* The database file after store.close(): saveToFile writes the export of db.
close(d, f) == d

\* The database after store.init() on the file f: loaded, then initSchema.
init(f) == initSchema(f)

\* The timer armed by scheduleSave fires.
saveToFile ==
  /\ event' = NoEvent
  /\ UNCHANGED <<turns, context>>
  /\ saveTimer
  /\ file' = db
  /\ saveTimer' = FALSE
  /\ out' = << >>
  /\ UNCHANGED <<sessions, data, aborted, ctrls, runs, titleJobs, nextId, seq, now, db,
                 requests, clientHistory, nextTool, boots, claudeCodePath, tieBreak>>

\* stdin closes or SIGTERM/SIGINT arrives: cleanupAllSessions, store.close,
\* process.exit; then the next launch runs main(): store.init loads the file,
\* initSchema, handleSessionList.  The heap of the old process is gone.
Restart ==
  /\ event' = NoEvent
  /\ UNCHANGED <<turns, context>>
  /\ boots < MaxBoots
  /\ boots' = boots + 1
  /\ LET closed == close(db, file)
         loaded == init(closed)
     IN /\ file' = closed
        /\ db' = loaded
        /\ sessions' = ListAdmitted(loaded, {})
        /\ data' = ListData(loaded, {}, << >>, << >>)
        /\ ctrls' = ListControllers(loaded, {}, << >>)
        /\ out' = << ListEvent(loaded) >>
  /\ aborted' = {}
  /\ runs' = << >>
  /\ titleJobs' = {}
  /\ requests' = {}
  /\ clientHistory' = << >>
  /\ saveTimer' = TRUE
  /\ UNCHANGED <<nextId, seq, now, nextTool, claudeCodePath, tieBreak>>

\* The process is killed: no handler runs, store.close is not called.  The
\* next launch runs main() on the database file as the last timer save left
\* it.
Crash ==
  /\ event' = NoEvent
  /\ UNCHANGED <<turns, context>>
  /\ boots < MaxBoots
  /\ boots' = boots + 1
  /\ LET loaded == init(file)
     IN /\ db' = loaded
        /\ sessions' = ListAdmitted(loaded, {})
        /\ data' = ListData(loaded, {}, << >>, << >>)
        /\ ctrls' = ListControllers(loaded, {}, << >>)
        /\ out' = << ListEvent(loaded) >>
  /\ aborted' = {}
  /\ runs' = << >>
  /\ titleJobs' = {}
  /\ requests' = {}
  /\ clientHistory' = << >>
  /\ saveTimer' = TRUE
  /\ UNCHANGED <<file, nextId, seq, now, nextTool, claudeCodePath, tieBreak>>

\* A millisecond passes.
Tick ==
  /\ event' = NoEvent
  /\ UNCHANGED <<turns, context>>
  /\ now < MaxClock
  /\ now' = now + 1
  /\ out' = << >>
  /\ UNCHANGED <<sessions, data, aborted, ctrls, runs, titleJobs, nextId, seq, db, file,
                 saveTimer, requests, clientHistory, nextTool, boots, claudeCodePath,
                 tieBreak>>

Init ==
  /\ event = NoEvent
  /\ turns = << >>
  /\ context = [built |-> FALSE]
  /\ sessions = {}
  /\ data = << >>
  /\ aborted = {}
  /\ ctrls = << >>
  /\ runs = << >>
  /\ titleJobs = {}
  /\ nextId = 1
  /\ seq = << >>
  /\ now = 0
  /\ db = initSchema(EmptyDb)
  /\ file = EmptyDb
  /\ saveTimer = TRUE
  /\ requests = {}
  /\ clientHistory = << >>
  /\ nextTool = 1
  /\ boots = 0
  /\ claudeCodePath \in BOOLEAN
  /\ tieBreak \in {"insertion", "reverse"}
  /\ out = << >>

AgentMessages == {<<"assistant", "">>, <<"result", "success">>, <<"result", "error_during_execution">>}

\* Tool requests the agent makes: a shell command, file tools on a path under
\* a protected prefix and on an unprotected one, an unknown (MCP) tool with
\* and without a path, and the agent's question tool.
PSsh == <<"/", "h", "/", "s", "/", "k">>
PEtc == <<"/", "e", "/", "p">>
PTmp == <<"/", "t">>
Cmd == <<"l", "s">>

ToolRequests ==
  { <<"Bash", Input(NULL, NULL, Cmd)>>,
    <<"Read", Input(PSsh, NULL, NULL)>>,
    <<"Read", Input(PTmp, NULL, NULL)>>,
    <<"Edit", Input(PEtc, NULL, NULL)>>,
    <<"Mcp", Input(NULL, PSsh, NULL)>>,
    <<"Mcp", Input(NULL, NULL, NULL)>>,
    <<"AskUserQuestion", Input(NULL, NULL, NULL)>> }

SettingsPayloads ==
  { "permissionMode" :> "interactive", "permissionMode" :> "auto-safe",
    "permissionMode" :> "bypass", "protectedPaths" :> << >>,
    "protectedPaths" :> << PTmp >> }

Next ==
  \/ handleSessionList
  \/ \E id \in SessionIds : handleSessionHistory(id)
  \/ \E title \in Titles : handleSessionStart(title)
  \/ \E id \in SessionIds : handleSessionContinue(id)
  \/ \E id \in SessionIds : handleSessionStop(id)
  \/ \E id \in SessionIds : handleSessionDelete(id)
  \/ \E c \in CtrlIds, m \in AgentMessages : StreamMessage(c, m[1], m[2])
  \/ \E c \in CtrlIds : StreamEnd(c)
  \/ \E c \in CtrlIds : StreamThrow(c)
  \/ \E id \in SessionIds, newTitle \in BOOLEAN : TitleDone(id, newTitle)
  \/ \E c \in CtrlIds, r \in ToolRequests : canUseTool(c, r[1], r[2])
  \/ \E r \in requests, b \in {"allow", "deny"}, remember \in BOOLEAN :
        handlePermissionResponse(r, b, remember)
  \/ handleSettingsGet
  \/ \E payload \in SettingsPayloads : handleSettingsUpdate(payload)
  \/ handlePermissionPolicyClear
  \/ saveToFile
  \/ Tick
  \/ Restart

Spec == Init /\ [][Next]_vars

\* ------------------------------------------------------------ environments
\* One session, its whole life cycle, and a process restart.
NextLife ==
  \/ \E title \in Titles : nextId <= MaxLifeSessions /\ handleSessionStart(title)
  \/ \E id \in SessionIds : handleSessionContinue(id)
  \/ \E id \in SessionIds : handleSessionStop(id)
  \/ \E id \in SessionIds : handleSessionDelete(id)
  \/ \E c \in CtrlIds, m \in AgentMessages : StreamMessage(c, m[1], m[2])
  \/ \E c \in CtrlIds : StreamEnd(c)
  \/ \E c \in CtrlIds : StreamThrow(c)
  \/ Restart

SpecLife == Init /\ [][NextLife]_vars

\* Sessions run to their result message or are stopped, titles are generated,
\* the process is shut down and launched again.
ResultMessages == {m \in AgentMessages : m[1] = "result"}

NextStore ==
  \/ handleSessionList
  \/ \E title \in Titles : nextId <= MaxLifeSessions /\ handleSessionStart(title)
  \/ \E id \in SessionIds : handleSessionStop(id)
  \/ \E c \in CtrlIds, m \in ResultMessages : StreamMessage(c, m[1], m[2])
  \/ \E id \in SessionIds, newTitle \in BOOLEAN : TitleDone(id, newTitle)
  \/ saveToFile
  \/ Restart

SpecStore == Init /\ [][NextStore]_vars

\* One session whose log is read while it grows, with the clock running.
NextHistory ==
  \/ \E title \in Titles : nextId <= MaxLifeSessions /\ handleSessionStart(title)
  \/ \E id \in SessionIds : handleSessionContinue(id)
  \/ \E id \in SessionIds : handleSessionHistory(id)
  \/ \E c \in CtrlIds, m \in AgentMessages : StreamMessage(c, m[1], m[2])
  \/ Tick

SpecHistory == Init /\ [][NextHistory]_vars

\* Concurrent sessions in interactive mode whose agents ask for tools and
\* whose user answers, remembering or not.
PolicyRequests ==
  { <<"Bash", Input(NULL, NULL, Cmd)>>,
    <<"Mcp", Input(NULL, PSsh, NULL)>>,
    <<"Mcp", Input(NULL, NULL, NULL)>> }

NextPolicy ==
  \/ \E title \in Titles : handleSessionStart(title)
  \/ \E c \in CtrlIds, r \in PolicyRequests : canUseTool(c, r[1], r[2])
  \/ \E r \in requests, b \in {"allow", "deny"}, remember \in BOOLEAN :
        handlePermissionResponse(r, b, remember)
  \/ handlePermissionPolicyClear

SpecPolicy == Init /\ [][NextPolicy]_vars

\* A session started under any permission mode and protected-path list;
\* the user answers each prompt for this call only.
NextArbiter ==
  \/ \E title \in Titles : nextId <= MaxLifeSessions /\ handleSessionStart(title)
  \/ \E c \in CtrlIds, r \in ToolRequests : canUseTool(c, r[1], r[2])
  \/ \E r \in requests, b \in {"allow", "deny"} : handlePermissionResponse(r, b, FALSE)
  \/ \E payload \in SettingsPayloads : handleSettingsUpdate(payload)

SpecArbiter == Init /\ [][NextArbiter]_vars

\* Requests for paths under a protected prefix and outside one, made under
\* any permission mode and protected-path list, while the user's answers
\* may be remembered as policies.
ProtectedRequests ==
  { <<"Edit", Input(PEtc, NULL, NULL)>>,
    <<"Mcp", Input(NULL, PSsh, NULL)>>,
    <<"Read", Input(PTmp, NULL, NULL)>> }

NextProtected ==
  \/ \E title \in Titles : db.sessions = << >> /\ seq = << >> /\ handleSessionStart(title)
  \/ \E c \in CtrlIds, r \in ProtectedRequests : canUseTool(c, r[1], r[2])
  \/ \E r \in requests, b \in {"allow", "deny"}, remember \in BOOLEAN :
        /\ remember => Len(db.policies) < MaxPolicies
        /\ handlePermissionResponse(r, b, remember)
  \/ \E payload \in SettingsPayloads : handleSettingsUpdate(payload)

SpecProtected == Init /\ [][NextProtected]_vars

\* The agent puts questions to the user and asks for a shell command, under
\* any permission mode; the user's answers may be remembered as policies.
AskRequests ==
  { <<"AskUserQuestion", Input(NULL, NULL, NULL)>>,
    <<"Bash", Input(NULL, NULL, Cmd)>> }

ModePayloads ==
  { "permissionMode" :> "interactive", "permissionMode" :> "auto-safe",
    "permissionMode" :> "bypass" }

NextAsk ==
  \/ \E title \in Titles : db.sessions = << >> /\ seq = << >> /\ handleSessionStart(title)
  \/ \E c \in CtrlIds, r \in AskRequests : canUseTool(c, r[1], r[2])
  \/ \E r \in requests, b \in {"allow", "deny"}, remember \in BOOLEAN :
        /\ remember => Len(db.policies) < MaxPolicies
        /\ handlePermissionResponse(r, b, remember)
  \/ \E payload \in ModePayloads : handleSettingsUpdate(payload)

SpecAsk == Init /\ [][NextAsk]_vars

\* Every tool name the two lists know and an unknown one, on an unprotected
\* path, and a shell command; the user's answers may be remembered.
ModeRequests ==
  { <<t, Input(PTmp, NULL, NULL)>> :
      t \in {"Read", "Grep", "Glob", "Ls", "Tree", "Edit", "Write", "WebFetch",
              "NotebookEdit", "Mcp"} }
  \cup { <<"Bash", Input(NULL, NULL, Cmd)>> }

NextModes ==
  \/ \E title \in Titles : db.sessions = << >> /\ seq = << >> /\ handleSessionStart(title)
  \/ \E c \in CtrlIds, r \in ModeRequests : canUseTool(c, r[1], r[2])
  \/ \E r \in requests, b \in {"allow", "deny"}, remember \in BOOLEAN :
        /\ remember => Len(db.policies) < MaxPolicies
        /\ handlePermissionResponse(r, b, remember)
  \/ \E payload \in ModePayloads : handleSettingsUpdate(payload)

SpecModes == Init /\ [][NextModes]_vars

\* Two sessions (the one whose call waits and another) in interactive mode
\* whose agents stream and ask for a shell command; the client answers with
\* the response to a request, or with one that names another session or
\* another tool-use id.
AssistantMessages == {m \in AgentMessages : m[1] = "assistant"}

NextWait ==
  \/ \E title \in Titles : Len(db.sessions) <= 1 /\ handleSessionStart(title)
  \/ \E c \in CtrlIds : canUseTool(c, "Bash", Input(NULL, NULL, Cmd))
  \/ \E r \in requests, b \in {"allow", "deny"} : handlePermissionResponse(r, b, FALSE)
  \/ \E r \in requests, id \in SessionIds :
        handlePermissionResponse([r EXCEPT !.sessionId = id], "allow", FALSE)
  \/ \E r \in requests, toolUseId \in 1..MaxTools :
        handlePermissionResponse([r EXCEPT !.toolUseId = toolUseId], "allow", FALSE)
  \/ \E c \in CtrlIds, m \in AssistantMessages : StreamMessage(c, m[1], m[2])

SpecWait == Init /\ [][NextWait]_vars

\* Sessions whose messages are stored while the save timer fires or is
\* re-armed by the next write; the process may be killed at any moment.
NextCrash ==
  \/ \E title \in Titles : handleSessionStart(title)
  \/ \E c \in CtrlIds, m \in AgentMessages : StreamMessage(c, m[1], m[2])
  \/ saveToFile
  \/ Crash

SpecCrash == Init /\ [][NextCrash]_vars

\* Turns of one session whose agent asks for a shell command; a turn ends
\* with a result, with an error or with session.stop, possibly while the
\* request is unanswered, and the session is continued.
NextPending ==
  \/ \E title \in Titles : db.sessions = << >> /\ seq = << >> /\ handleSessionStart(title)
  \/ \E id \in SessionIds : handleSessionContinue(id)
  \/ \E id \in SessionIds : handleSessionStop(id)
  \/ \E c \in CtrlIds : canUseTool(c, "Bash", Input(NULL, NULL, Cmd))
  \/ \E r \in requests, b \in {"allow", "deny"} : handlePermissionResponse(r, b, FALSE)
  \/ \E c \in CtrlIds, m \in ResultMessages : StreamMessage(c, m[1], m[2])
  \/ \E c \in CtrlIds : StreamThrow(c)

SpecPending == Init /\ [][NextPending]_vars

\* The turns of the first session: they end with a result, with the end of
\* the stream, with an error thrown by the stream or by the store, or are
\* stopped; the session may be deleted.
NextTurn ==
  \/ \E title \in Titles : db.sessions = << >> /\ seq = << >> /\ handleSessionStart(title)
  \/ \E id \in SessionIds : handleSessionContinue(id)
  \/ \E id \in SessionIds : handleSessionStop(id)
  \/ \E id \in SessionIds : handleSessionDelete(id)
  \/ \E c \in CtrlIds, m \in AgentMessages : StreamMessage(c, m[1], m[2])
  \/ \E c \in CtrlIds, m \in AgentMessages : RecordThrow(c, m[1], m[2])
  \/ \E c \in CtrlIds : StreamEnd(c)
  \/ \E c \in CtrlIds : StreamThrow(c)

SpecTurn == Init /\ [][NextTurn]_vars

\* Client events that name sessions and tool uses the sidecar does not know,
\* next to one live session: permission.response payloads for a tool-use id
\* that was never handed out.
StaleResponses ==
  { PermissionRequest(id, 0, "Edit", Input(PTmp, NULL, NULL), FALSE) : id \in SessionIds }

NextNotFound ==
  \/ \E title \in Titles : nextId <= MaxLifeSessions /\ handleSessionStart(title)
  \/ \E id \in SessionIds : handleSessionHistory(id)
  \/ \E id \in SessionIds : nextId <= id /\ handleSessionContinue(id)
  \/ \E id \in SessionIds : handleSessionStop(id)
  \/ \E id \in SessionIds : handleSessionDelete(id)
  \/ \E r \in StaleResponses, b \in {"allow", "deny"}, remember \in BOOLEAN :
        /\ remember => Len(db.policies) < MaxPolicies
        /\ handlePermissionResponse(r, b, remember)

SpecNotFound == Init /\ [][NextNotFound]_vars

\* ------------------------------------------------ conversation context builder
\* A text is kept as its runs of characters: [ch |-> "cjk" | "other", n |-> count];
\* the run "marker" is the literal '... [truncated]'.
MAX_CONTEXT_TOKENS == 6000

MAX_SINGLE_TURN_TOKENS == 1500

Marker == << [ch |-> "marker", n |-> 15] >>

RECURSIVE Chars(_, _)
Chars(text, kinds) ==
  IF text = << >> THEN 0
  ELSE (IF text[1].ch \in kinds THEN text[1].n ELSE 0) + Chars(Tail(text), kinds)

\* Math.ceil(chineseChars / 2 + otherChars / 4)
estimateTokens(text) ==
  LET chineseChars == Chars(text, {"cjk"})
      otherChars == Chars(text, {"other", "marker"})
  IN (2 * chineseChars + otherChars + 3) \div 4

\* A slice that cuts nothing off.
sliceWhole(text, maxChars) == text

\* content.slice(0, maxChars)
RECURSIVE slice(_, _)
slice(text, maxChars) ==
  IF text = << >> \/ maxChars = 0 THEN << >>
  ELSE IF text[1].n <= maxChars
    THEN << text[1] >> \o slice(Tail(text), maxChars - text[1].n)
    ELSE << [ch |-> text[1].ch, n |-> maxChars] >>

\* The loop that works backwards from the most recent turn, at index i.
RECURSIVE Accumulate(_, _, _, _)
Accumulate(ts, i, totalTokens, recentTurns) ==
  IF i < 1 \/ totalTokens >= MAX_CONTEXT_TOKENS THEN recentTurns
  ELSE LET long == estimateTokens(ts[i].content) > MAX_SINGLE_TURN_TOKENS
           content == IF long
                        THEN slice(ts[i].content, MAX_SINGLE_TURN_TOKENS * 3) \o Marker
                        ELSE ts[i].content
           turnTokens == IF long THEN MAX_SINGLE_TURN_TOKENS
                         ELSE estimateTokens(ts[i].content)
       IN IF totalTokens + turnTokens <= MAX_CONTEXT_TOKENS
            THEN Accumulate(ts, i - 1, totalTokens + turnTokens,
                            << [role |-> ts[i].role, content |-> content] >> \o recentTurns)
            ELSE recentTurns

\* A builder that lists the turns it kept newest first.
buildNewestFirst(ts) ==
  LET kept == Accumulate(ts, Len(ts), 0, << >>)
  IN [k \in 1..Len(kept) |-> kept[Len(kept) + 1 - k]]

\* recentTurns of buildConversationContext for the turns ts; the returned
\* string lists them in this order between the history tags.
buildConversationContext(ts) == Accumulate(ts, Len(ts), 0, << >>)

\* handleSessionContinue builds the prompt from a stored history whose turns
\* are ts (one call is followed here).
BuildContext(ts) ==
  /\ ~context.built
  /\ event' = NoEvent
  /\ turns' = ts
  /\ context' = [built |-> TRUE, recentTurns |-> buildConversationContext(ts)]
  /\ out' = << >>
  /\ UNCHANGED <<sessions, data, aborted, ctrls, runs, titleJobs, nextId, seq, now, db,
                 file, saveTimer, requests, clientHistory, nextTool, boots,
                 claudeCodePath, tieBreak>>

\* Turn texts: short, exactly at the single-turn cap, one token over it,
\* CJK of 2000 tokens that is shorter than the character limit, and mixed.
Contents ==
  { << [ch |-> "other", n |-> 2000] >>,
    << [ch |-> "other", n |-> 6000] >>,
    << [ch |-> "other", n |-> 6004] >>,
    << [ch |-> "cjk", n |-> 4000] >>,
    << [ch |-> "cjk", n |-> 100], [ch |-> "other", n |-> 3000] >> }

Role(i) == IF i % 2 = 1 THEN "user" ELSE "assistant"

\* Histories of up to MaxTurns turns: any text for the oldest turn, for the
\* newest turn and for the turns between them
Histories ==
  UNION { { [i \in 1..n |-> [role |-> Role(i),
                             content |-> IF i = n THEN newest
                                         ELSE IF i = 1 THEN oldest ELSE middle]]
            : oldest \in Contents, middle \in Contents, newest \in Contents }
          : n \in 0..MaxTurns }

\* Texts of about 2000 token-equivalents
LongContents ==
  { << [ch |-> "other", n |-> 7600] >>,
    << [ch |-> "other", n |-> 8000] >>,
    << [ch |-> "cjk", n |-> 4200] >> }

\* Histories of 50 turns of about 2000 token-equivalents each
LongHistories ==
  { [i \in 1..50 |-> [role |-> Role(i),
                       content |-> IF i = 50 THEN c ELSE IF i % 2 = 1 THEN a ELSE b]]
    : a \in LongContents, b \in LongContents, c \in LongContents }

NextContext ==
  \/ \E ts \in Histories : BuildContext(ts)
  \/ \E ts \in LongHistories : BuildContext(ts)

SpecContext == Init /\ [][NextContext]_vars

\* ------------------------------------------------------------------ claims
\* The step just taken was canUseTool: out[1] is its request or its return
ToolStep == nextTool' = nextTool + 1

\* The permission mode the arbiter of session id decides under
ModeIs(id, modes) ==
  \A c \in DOMAIN runs : runs[c].sessionId = id => runs[c].permissionMode \in modes

HasPolicy(toolName, pathPattern, behavior) ==
  \E i \in 1..Len(db.policies) :
     db.policies[i] = [tool_name |-> toolName, path_pattern |-> pathPattern,
                       behavior |-> behavior]

Sent(evs, type, id) ==
  \E i \in 1..Len(evs) : evs[i].type = type /\ evs[i].sessionId = id

\* stop was processed for the turn of run c, whose stream is still open
Stopped(c) ==
  /\ c \in DOMAIN runs
  /\ c \in aborted
  /\ runs[c].sessionId \in sessions
  /\ data[runs[c].sessionId].abortController = c

\* C1: once session.stop has been processed for a turn whose stream is open,
\* the session's status is idle in the registry and in the store and stays
\* idle, and no stream.message is emitted for the turn, until the next
\* session.continue (which installs a new AbortController).
C1_StopStaysIdle ==
  [][\A c \in CtrlIds :
       (/\ Stopped(c)
        /\ boots' = boots
        /\ runs[c].sessionId \in sessions'
        /\ data'[runs[c].sessionId].abortController = c)
       => /\ data'[runs[c].sessionId].status = "idle"
          /\ db'.sessions[runs[c].sessionId].status = "idle"
          /\ ~Sent(out', "stream.message", runs[c].sessionId)]_vars

\* The runQuery invocations of session id that have not returned
InFlight(id) == {c \in DOMAIN runs : runs[c].sessionId = id}

\* C2: in every reachable state at most one runQuery invocation is in flight
\* per session.
C2_OneInvocation == \A id \in SessionIds : Cardinality(InFlight(id)) <= 1

\* The stored message log of a session, in the order it was appended
StoredLog(d, id) == [i \in 1..Len(MessageRows(d, id)) |-> MessageRows(d, id)[i].data]

\* C3: the history a session.continue hands to buildConversationContext is
\* the session's full stored message log as it was before the new prompt.
C3_FullHistory ==
  [][\A c \in DOMAIN runs' \ DOMAIN runs :
       runs'[c].history = StoredLog(db, runs'[c].sessionId)]_vars

\* C4: a session that was created and has no row any more (it was deleted)
\* owns no message in the store, in every later state.
C4_DeletedStaysDeleted ==
  \A id \in SessionIds :
     (id < nextId /\ ~hasSession(db, id)) => MessageRows(db, id) = << >>

\* C5: while the always_deny policy remembered for a Bash prompt is stored,
\* every Bash request with the same input decided in interactive mode
\* returns deny at once, with no permission.request.
C5_DenyRemembered ==
  [][(/\ ToolStep
      /\ out'[1].toolName = "Bash"
      /\ out'[1].input = Input(NULL, NULL, Cmd)
      /\ ModeIs(out'[1].sessionId, {"interactive"})
      /\ HasPolicy("Bash", NULL, "always_deny"))
     => (out'[1].type = "canUseTool.return" /\ out'[1].behavior = "deny")]_vars

\* C6: when the store holds an always_deny policy for (T, P) and a tool-only
\* always_allow policy for T, a request for T whose resolved path is P,
\* decided in interactive or auto-safe mode, returns deny without a prompt.
C6_PathDenyWins ==
  [][(/\ ToolStep
      /\ ResolvedPath(out'[1].input) # NULL
      /\ ModeIs(out'[1].sessionId, {"interactive", "auto-safe"})
      /\ HasPolicy(out'[1].toolName, ResolvedPath(out'[1].input), "always_deny")
      /\ HasPolicy(out'[1].toolName, NULL, "always_allow"))
     => (out'[1].type = "canUseTool.return" /\ out'[1].behavior = "deny")]_vars

\* filePath starts with one of the configured protected paths, a leading ~
\* of which stands for the home directory
UnderProtectedPath(d, filePath) ==
  \E i \in 1..Len(getProtectedPaths(d)) :
     LET p == getProtectedPaths(d)[i]
         prefix == IF p # << >> /\ p[1] = "~" THEN Home \o SubSeq(p, 2, Len(p)) ELSE p
     IN /\ Len(prefix) <= Len(filePath)
        /\ SubSeq(filePath, 1, Len(prefix)) = prefix

\* C7: in auto-safe mode, a request that no stored policy matches and whose
\* resolved path is under a protected path emits a permission.request
\* flagged isProtectedPath, whatever the tool.
C7_ProtectedAsks ==
  [][(/\ ToolStep
      /\ ModeIs(out'[1].sessionId, {"auto-safe"})
      /\ ResolvedPath(out'[1].input) # NULL
      /\ getPermissionPolicy(db, out'[1].toolName, ResolvedPath(out'[1].input)) = "none"
      /\ UnderProtectedPath(db, ResolvedPath(out'[1].input)))
     => (out'[1].type = "permission.request" /\ out'[1].isProtectedPath)]_vars

\* A read-only or unknown tool was stopped by a protected path in auto-safe mode
C7_Witness ==
  /\ Len(out) = 1
  /\ out[1].type = "permission.request"
  /\ out[1].isProtectedPath
  /\ out[1].toolName \in safeTools
  /\ \E c \in DOMAIN runs :
        runs[c].waiting = out[1].toolUseId /\ runs[c].permissionMode = "auto-safe"

\* C8: the session.list sent by the launch that follows a shutdown holds
\* every stored session with the id, title and status it had before.
C8_RoundTrip ==
  [][boots' = boots + 1
     => (out'[1].type = "session.list" /\ out'[1].sessions = listSessions(db))]_vars

\* After a restart the list holds a completed session with its generated title
C8_Witness ==
  /\ boots = 1
  /\ Len(out) = 1
  /\ out[1].type = "session.list"
  /\ \E r \in out[1].sessions : r.status = "completed" /\ r.title = GeneratedTitle

\* The number of user prompts in a history: one per session.start or
\* session.continue of the session
UserPrompts(messages) ==
  Cardinality({i \in 1..Len(messages) : messages[i].type = "user_prompt"})

\* C9: the sequence a session.history returns has the sequence returned by
\* the previous session.history of that session as a prefix, and is that
\* same sequence when no session.start or session.continue came in between.
C9_AppendOnly ==
  [][\A i \in 1..Len(out') :
       (out'[i].type = "session.history" /\ out'[i].sessionId \in DOMAIN clientHistory)
       => LET earlier == clientHistory[out'[i].sessionId]
              later == out'[i].messages
          IN /\ IsPrefix(earlier, later)
             /\ (UserPrompts(later) = UserPrompts(earlier) => later = earlier)]_vars

\* C10: session.history returns the messages of a session in the order in
\* which they were emitted.
C10_EmissionOrder ==
  \A i \in 1..Len(out) :
     out[i].type = "session.history"
     => \A j, k \in 1..Len(out[i].messages) :
          j < k => out[i].messages[j].seq < out[i].messages[k].seq

\* Neither the registry nor the store knows session id
Unknown(id) == id \notin sessions /\ ~hasSession(db, id)

\* C11: a session.continue for a session unknown to the registry and to the
\* store sends a runner.error saying the session was not found and creates
\* no session, appends no message, changes no status, starts no invocation.
C11_UnknownContinue ==
  [][(event'.type = "session.continue" /\ Unknown(event'.sessionId))
     => /\ out' = << RunnerError("Session not found") >>
        /\ UNCHANGED <<sessions, data, db, runs, ctrls, seq, nextId>>]_vars

\* A session.continue for an unknown session was answered while another
\* session is live
C11_Witness ==
  /\ event.type = "session.continue"
  /\ Unknown(event.sessionId)
  /\ out = << RunnerError("Session not found") >>
  /\ sessions # {}

\* The event names a session the sidecar does not know, or a tool use that is
\* not pending in its session
NotFound(e) ==
  \/ /\ e.type \in {"session.history", "session.continue", "session.stop",
                    "session.delete", "permission.response"}
     /\ Unknown(e.sessionId)
  \/ /\ e.type = "permission.response"
     /\ e.sessionId \in sessions
     /\ e.toolUseId \notin data[e.sessionId].pendingPermissions

\* C12: a client event that names an unknown session or a tool use that is
\* not pending is answered with a runner.error and leaves the registry and
\* the store as they were.
C12_NotFoundNoChange ==
  [][NotFound(event')
     => /\ \E i \in 1..Len(out') : out'[i].type = "runner.error"
        /\ UNCHANGED <<sessions, data, db>>]_vars

\* p is a text that t starts with
RunPrefix(p, t) ==
  /\ Len(p) <= Len(t)
  /\ \A j \in 1..Len(p) :
        /\ p[j].ch = t[j].ch
        /\ IF j < Len(p) THEN p[j].n = t[j].n ELSE p[j].n <= t[j].n

AllChars(text) == Chars(text, {"cjk", "other", "marker"})

\* content is the first MAX_SINGLE_TURN_TOKENS * 3 characters of original
\* followed by the truncation marker
IsTruncationOf(content, original) ==
  /\ content # << >>
  /\ content[Len(content)] = [ch |-> "marker", n |-> 15]
  /\ RunPrefix(SubSeq(content, 1, Len(content) - 1), original)
  /\ AllChars(content) - 15 =
        IF AllChars(original) < MAX_SINGLE_TURN_TOKENS * 3
          THEN AllChars(original) ELSE MAX_SINGLE_TURN_TOKENS * 3

\* The kept turns are the last Len(kept) turns of ts, oldest first, each
\* with its own text or a truncation of it
RecentSuffix(kept, ts) ==
  /\ Len(kept) <= Len(ts)
  /\ \A k \in 1..Len(kept) :
        LET original == ts[Len(ts) - Len(kept) + k]
        IN /\ kept[k].role = original.role
           /\ \/ kept[k].content = original.content
              \/ IsTruncationOf(kept[k].content, original.content)

\* C13 as stated: from 50 turns of about 2000 token-equivalents the context
\* keeps at most 3 turns, the most recent ones, oldest first.
C13_AtMostThree ==
  (context.built /\ turns \in LongHistories)
  => /\ Len(context.recentTurns) <= 3
     /\ RecentSuffix(context.recentTurns, turns)

\* C13: from 50 turns of about 2000 token-equivalents the context keeps 4
\* turns, each cut to the single-turn cap and counted as 1500; they are the
\* most recent ones, oldest first with the newest last.
C13_FourTruncated ==
  (context.built /\ turns \in LongHistories)
  => /\ Len(context.recentTurns) = 4
     /\ RecentSuffix(context.recentTurns, turns)
     /\ \A k \in 1..4 :
           IsTruncationOf(context.recentTurns[k].content, turns[46 + k].content)

\* The context of a 50-turn history whose neighbouring turns differ was built
C13_Witness ==
  /\ context.built
  /\ turns \in LongHistories
  /\ turns[49].content # turns[50].content
  /\ Len(context.recentTurns) = 4

RECURSIVE TokenSum(_)
TokenSum(ts) ==
  IF ts = << >> THEN 0 ELSE estimateTokens(ts[1].content) + TokenSum(Tail(ts))

\* C14 as stated: when the estimated token sum of the turns exceeds the
\* budget, the kept turns are a most-recent suffix in original order and the
\* newest turn is kept with its content verbatim.
C14_NewestVerbatim ==
  (context.built /\ TokenSum(turns) > MAX_CONTEXT_TOKENS)
  => /\ RecentSuffix(context.recentTurns, turns)
     /\ context.recentTurns # << >>
     /\ context.recentTurns[Len(context.recentTurns)].content = turns[Len(turns)].content

\* C14: when the estimated token sum of the turns exceeds the budget, the
\* kept turns are a most-recent suffix in original order that holds the
\* newest turn; a kept turn is verbatim when its estimate is within the
\* single-turn cap and is otherwise its first 4500 characters plus the marker.
C14_SuffixCapped ==
  (context.built /\ TokenSum(turns) > MAX_CONTEXT_TOKENS)
  => /\ RecentSuffix(context.recentTurns, turns)
     /\ context.recentTurns # << >>
     /\ \A k \in 1..Len(context.recentTurns) :
           LET original == turns[Len(turns) - Len(context.recentTurns) + k].content
               content == context.recentTurns[k].content
           IN IF estimateTokens(original) <= MAX_SINGLE_TURN_TOKENS
                THEN content = original
                ELSE IsTruncationOf(content, original)

\* An over-budget history lost its oldest turn, kept its newest turn verbatim
\* and an older one truncated
C14_Witness ==
  /\ context.built
  /\ TokenSum(turns) > MAX_CONTEXT_TOKENS
  /\ 0 < Len(context.recentTurns) /\ Len(context.recentTurns) < Len(turns)
  /\ context.recentTurns[Len(context.recentTurns)].content = turns[Len(turns)].content
  /\ \E k \in 1..Len(context.recentTurns) :
        context.recentTurns[k].content[Len(context.recentTurns[k].content)].ch = "marker"

TerminalStatus == {"completed", "error", "idle"}

\* C15: a session's status changes to completed, error or idle only from
\* running.
C15_FromRunning ==
  [][\A id \in DOMAIN data \cap DOMAIN data' :
       (data'[id].status # data[id].status /\ data'[id].status \in TerminalStatus)
       => data[id].status = "running"]_vars

C17_EndsTerminal ==
  [][\A c \in DOMAIN runs \ DOMAIN runs' :
       boots' = boots => data'[runs[c].sessionId].status \in TerminalStatus]_vars

\* What a canUseTool step did with its request, read off the event it sent
DecisionOf(ev) ==
  IF ev.type = "permission.request"
    THEN (IF ev.isProtectedPath THEN "ask-protected" ELSE "ask")
    ELSE ev.behavior

\* C18: every tool-use request is decided as the permission mode, the
\* policies and the protected paths held by the store at the time of the
\* call require; in particular a mode changed by settings.update during a
\* turn governs the next request of that turn.
C18_CurrentSettings ==
  [][ToolStep
     => DecisionOf(out'[1]) = Decide(db, getPermissionMode(db), out'[1].toolName,
                                     out'[1].input)]_vars

\* A request for toolName whose resolved key is key finds the policy row:
\* the two SELECTs of getPermissionPolicy
Applies(row, toolName, key) ==
  /\ row.tool_name = toolName
  /\ \/ (key # NULL /\ row.path_pattern = key)
     \/ row.path_pattern = NULL

\* Resolved keys of requests the agent can make, a second shell command
\* among them
RequestKeys == {PSsh, PEtc, PTmp, Cmd, <<"r", "m">>}

\* C19: the policy a remembered answer adds is stored under the tool and the
\* resolved key (file_path, else path, else command) of the request it
\* answers, and a request of that tool with a different resolved key does
\* not find it.
C19_SameScope ==
  [][(event'.type = "permission.response" /\ Len(db'.policies) = Len(db.policies) + 1)
     => \A r \in requests \ requests' :
          LET row == db'.policies[Len(db'.policies)]
          IN /\ row.tool_name = r.toolName
             /\ row.path_pattern = ResolvedPath(r.input)
             /\ \A key \in RequestKeys :
                  (ResolvedPath(r.input) # NULL /\ key # ResolvedPath(r.input))
                  => ~Applies(row, r.toolName, key)]_vars

C21_QuestionAlwaysAsks ==
  [][/\ (ToolStep /\ out'[1].toolName = "AskUserQuestion")
        => /\ out'[1].type = "permission.request"
           /\ \E c \in DOMAIN runs' : runs'[c].waiting = out'[1].toolUseId
     /\ \A c \in DOMAIN runs \cap DOMAIN runs' :
          (/\ runs[c].waiting # 0
           /\ runs'[c].waiting = 0
           /\ \E r \in requests :
                r.toolUseId = runs[c].waiting /\ r.toolName = "AskUserQuestion")
          => /\ event'.type = "permission.response"
             /\ event'.sessionId = runs[c].sessionId
             /\ event'.toolUseId = runs[c].waiting
             /\ out' = << Resolved(runs[c].sessionId, runs[c].waiting,
                                   event'.behavior) >>]_vars

\* A question was put to the user in a turn that runs in bypass mode while
\* the store holds an always_allow policy for the question tool
C21_Witness ==
  /\ Len(out) = 1
  /\ out[1].type = "permission.request"
  /\ out[1].toolName = "AskUserQuestion"
  /\ HasPolicy("AskUserQuestion", NULL, "always_allow")
  /\ \E c \in DOMAIN runs :
        runs[c].waiting = out[1].toolUseId /\ runs[c].permissionMode = "bypass"

\* The request of the step is allowed without a prompt / put to the user
Allowed(ev) == ev.type = "canUseTool.return" /\ ev.behavior = "allow"

Prompted(ev) == ev.type = "permission.request"

HasMessage(c) ==
  /\ runs[c].waiting = 0
  /\ Emitted(runs[c].sessionId) < MaxMsgs
  /\ c \in aborted => runs[c].late < MaxLate

\* C23: while a tool call of one session waits for its answer, the stream
\* messages and the client events of every other session can be handled, and
\* a waiting call resumes only in the step that handles a
\* permission.response with its session id and its tool-use id, with the
\* behavior that response carries.
C23_OnlyThatCallWaits ==
  [][/\ \A c \in DOMAIN runs, c2 \in DOMAIN runs :
          (runs[c].waiting # 0 /\ runs[c2].sessionId # runs[c].sessionId)
          => /\ HasMessage(c2) => ENABLED StreamMessage(c2, "assistant", "")
             /\ ENABLED handleSessionStop(runs[c2].sessionId)
     /\ \A c \in DOMAIN runs \cap DOMAIN runs' :
          (runs[c].waiting # 0 /\ runs'[c].waiting = 0)
          => /\ event'.type = "permission.response"
             /\ event'.sessionId = runs[c].sessionId
             /\ event'.toolUseId = runs[c].waiting
             /\ \E i \in 1..Len(out') :
                  out'[i] = Resolved(runs[c].sessionId, runs[c].waiting, event'.behavior)
     /\ \A c \in DOMAIN runs \cap DOMAIN runs' :
          (/\ runs[c].waiting # 0
           /\ event'.type = "permission.response"
           /\ (event'.sessionId # runs[c].sessionId \/ event'.toolUseId # runs[c].waiting))
          => runs'[c].waiting = runs[c].waiting]_vars

\* A stream message of one session was emitted while a tool call of the
\* other session waits for its answer
C23_Witness ==
  /\ Len(out) = 1
  /\ out[1].type = "stream.message"
  /\ \E c \in DOMAIN runs :
        runs[c].waiting # 0 /\ runs[c].sessionId # out[1].sessionId

\* C24: when a step emits a session.status event, the store holds, once the
\* step is done, a row for that session with the status carried by the
\* last such event of the step (each send follows its store write), which
\* is what a session.list or session.history handled next reports.
C24_StoreBeforeEvent ==
  [][\A i \in 1..Len(out') :
       (/\ out'[i].type = "session.status"
        /\ \A j \in (i + 1)..Len(out') :
             ~(out'[j].type = "session.status" /\ out'[j].sessionId = out'[i].sessionId))
       => /\ hasSession(db', out'[i].sessionId)
          /\ db'.sessions[out'[i].sessionId].status = out'[i].status]_vars

\* Session rows and message rows that database d holds and file f does not
RECURSIVE LostMessages(_, _, _)
LostMessages(d, f, ids) ==
  IF ids = {} THEN 0
  ELSE LET id == CHOOSE x \in ids : TRUE
       IN (Len(MessageRows(d, id)) - Len(MessageRows(f, id)))
          + LostMessages(d, f, ids \ {id})

LostRows(d, f) ==
  Cardinality({id \in SessionIds : hasSession(d, id) /\ ~hasSession(f, id)})
  + LostMessages(d, f, SessionIds)

\* C25: when the process is killed, the database file lacks at most one of
\* the rows the store had written: at most the latest write is lost.
C25_LosesOneWrite ==
  [][(boots' = boots + 1) => LostRows(db, file) <= 1]_vars

\* The invocations in flight for session id that have not been aborted
Live(id) == {c \in InFlight(id) : c \notin aborted}

\* C26: a session is running, in the registry and in the store, exactly
\* when an agent invocation that has not been aborted is in flight for it,
\* and a message that does not end the turn is streamed only for a session
\* that is running.
C26_RunningIffInFlight ==
  \A id \in SessionIds :
     /\ (id \in sessions /\ data[id].status = "running") => Live(id) # {}
     /\ (hasSession(db, id) /\ db.sessions[id].status = "running") => Live(id) # {}
     /\ Live(id) # {}
          => /\ id \in sessions /\ data[id].status = "running"
             /\ hasSession(db, id) /\ db.sessions[id].status = "running"
     /\ \A i \in 1..Len(out) :
          (/\ out[i].type = "stream.message"
           /\ out[i].sessionId = id
           /\ out[i].message.type # "result")
          => id \in sessions /\ data[id].status = "running"

\* Session id was created and is neither in the registry nor in the store:
\* session.delete was handled for it and session.deleted was sent
Deleted(id) == id < nextId /\ id \notin sessions /\ ~hasSession(db, id)

\* C27: once session.deleted was sent for a session, no step emits a
\* stream.message, session.status or permission.request carrying its id.
C27_SilentAfterDelete ==
  [][\A i \in 1..Len(out') :
       out'[i].type \in {"stream.message", "session.status", "permission.request"}
       => ~Deleted(out'[i].sessionId)]_vars

\* C28: a session whose turn has ended (its status is completed, error or
\* idle) has no pending permission resolver, and none is registered when
\* session.continue starts the next turn of such a session.
C28_NoStaleResolver ==
  [][/\ \A id \in sessions' :
          data'[id].status \in TerminalStatus => data'[id].pendingPermissions = {}
     /\ \A id \in sessions :
          (/\ event'.type = "session.continue"
           /\ event'.sessionId = id
           /\ data[id].status \in TerminalStatus)
          => data[id].pendingPermissions = {}]_vars

\* C29: the store holds no two policy rows with the same tool name and the
\* same path pattern (NULL included), so that the policy getPermissionPolicy
\* finds for a key is the same whichever matching row the query returns first.
C29_OnePolicyPerKey ==
  \A i, j \in 1..Len(db.policies) :
     (/\ db.policies[i].tool_name = db.policies[j].tool_name
      /\ db.policies[i].path_pattern = db.policies[j].path_pattern)
     => i = j

\* C30: the estimates of the contents put into the context, taken after the
\* truncation of each turn and with the marker it appends, add up to at
\* most MAX_CONTEXT_TOKENS.
C30_WithinBudget ==
  context.built => TokenSum(context.recentTurns) <= MAX_CONTEXT_TOKENS

====
